---------------------------- MODULE Spec2Model ----------------------------
(***************************************************************************)
(* A model of EddieWikiCrawler's crawl engine (src/crawler_modules/        *)
(* crawler.rs): the shared Crawler state, the main-thread loop of start,   *)
(* the worker tasks (threaded_processing), the batch pager                 *)
(* (paginate_links), the display thread and path reconstruction            *)
(* (detravel_path), entered from user_interface::crawl once the two        *)
(* titles are resolved.                                                    *)
(*                                                                         *)
(* A title (a Rust String) is a record [name, len]: name is its identity,  *)
(* len its length in bytes (String::len).  An Option is a sequence of      *)
(* length at most one: None is <<>>, Some(x) is <<x>>.                     *)
(***************************************************************************)
EXTENDS Integers, Sequences, FiniteSets, Bags, TLC

None == <<>>

Some(x) == <<x>>

T(n, l) == [name |-> n, len |-> l]

\* String::len of a title
StrLen(title) == title.len

(***************************************************************************)
(* usize.  A value v below 2^63 is the integer v; a value v from 2^63 up   *)
(* (what a wrapped subtraction leaves) is the integer v - 2^64.  On these  *)
(* representatives a wrapping subtraction is the integer subtraction, and  *)
(* the unsigned order puts every negative representative above every       *)
(* non-negative one.                                                       *)
(***************************************************************************)
USub(a, b) == a - b

ULt(a, b) == IF (a < 0) = (b < 0) THEN a < b ELSE b < 0

\* a - b leaves the range of usize: a panic with overflow checks on (the
\* default of a debug build), a wrapped value with them off (a release build)
Underflows(a, b) == ULt(a, b)

Builds == {"debug", "release"}

---------------------------------------------------------------------------
(* paginate_links *)

MAX_URI == 2000

QUERY_LENGTH == 105

GRACE_SPACE == 20

MAX_LINKS == 50

max_chars == MAX_URI - QUERY_LENGTH - GRACE_SPACE

\* the locals of paginate_links when its loop is entered, the write lock on
\* visited taken
PagStart(visited_set) ==
  [visited |-> visited_set,
   available_chars |-> max_chars,
   current_vector |-> 0,
   link_count |-> 0,
   link_batches |-> << <<>> >>,
   panicked |-> FALSE]

\* the 50-link cap left out of the condition
OpensBatchNoCount(st, link) ==
  ULt(st.available_chars, StrLen(link) + 1)

\* whether appending link opens a new batch (the condition of line 449,
\* link_count already incremented)
OpensBatch(st, link) ==
  ULt(st.available_chars, StrLen(link) + 1) \/ (st.link_count + 1 > MAX_LINKS)

\* the reset of line 450 left out: a new batch keeps the old budget
CharsAfterBranchNoReset(st, link) ==
  IF OpensBatch(st, link) THEN st.available_chars ELSE USub(st.available_chars, 1)

\* available_chars after the branch of lines 449-458
CharsAfterBranch(st, link) ==
  IF OpensBatch(st, link) THEN max_chars ELSE USub(st.available_chars, 1)

\* the batch index the link is pushed to
VectorAfterBranch(st, link) ==
  IF OpensBatch(st, link) THEN st.current_vector + 1 ELSE st.current_vector

\* the link that opens a batch is not pushed to it
BatchesAfterPushLosesOpener(st, link) ==
  IF OpensBatch(st, link)
    THEN Append(st.link_batches, <<>>)
    ELSE [st.link_batches EXCEPT ![st.current_vector + 1] = Append(@, link)]

\* link_batches after the branch and the push of line 461 (indices from 0 in
\* the code, from 1 here)
BatchesAfterPush(st, link) ==
  LET opened == IF OpensBatch(st, link)
                  THEN Append(st.link_batches, <<>>)
                  ELSE st.link_batches
      cv == VectorAfterBranch(st, link) + 1
  IN  [opened EXCEPT ![cv] = Append(@, link)]

\* the iteration without the check of line 442
PagStepNoDedup(st, link, build) ==
  IF st.panicked THEN st
  ELSE [visited |-> st.visited \cup {link},
        available_chars |-> USub(CharsAfterBranch(st, link), StrLen(link)),
        current_vector |-> VectorAfterBranch(st, link),
        link_count |-> IF OpensBatch(st, link) THEN 1 ELSE st.link_count + 1,
        link_batches |-> BatchesAfterPush(st, link),
        panicked |-> FALSE]

\* one iteration of the loop of lines 440-462
PagStep(st, link, build) ==
  IF st.panicked THEN st
  ELSE IF link \in st.visited THEN st
  ELSE IF build = "debug" /\ Underflows(CharsAfterBranch(st, link), StrLen(link))
    THEN [visited |-> st.visited \cup {link},
          available_chars |-> CharsAfterBranch(st, link),
          current_vector |-> VectorAfterBranch(st, link),
          link_count |-> IF OpensBatch(st, link) THEN 1 ELSE st.link_count + 1,
          link_batches |-> IF OpensBatch(st, link)
                             THEN Append(st.link_batches, <<>>)
                             ELSE st.link_batches,
          panicked |-> TRUE]
  ELSE [visited |-> st.visited \cup {link},
        available_chars |-> USub(CharsAfterBranch(st, link), StrLen(link)),
        current_vector |-> VectorAfterBranch(st, link),
        link_count |-> IF OpensBatch(st, link) THEN 1 ELSE st.link_count + 1,
        link_batches |-> BatchesAfterPush(st, link),
        panicked |-> FALSE]

\* the iterations for links[lo..hi], in order.  The range is halved to keep
\* the evaluation shallow, and the locals after the first half are bound as
\* a value before the second half runs on them
RECURSIVE PagRange(_, _, _, _, _)
PagRange(st, links, lo, hi, build) ==
  IF lo > hi THEN st
  ELSE IF lo = hi THEN PagStep(st, links[lo], build)
  ELSE LET mid == (lo + hi) \div 2
       IN  CHOOSE after \in
             {PagRange(left, links, mid + 1, hi, build) :
                left \in {PagRange(st, links, lo, mid, build)}} : TRUE

\* the loop of lines 440-462 from links[i] on
PagLoop(st, links, i, build) ==
  CHOOSE after \in {PagRange(s, links, i, Len(links), build) : s \in {st}} : TRUE

\* the whole call: the locals when the loop has ended (link_batches is what
\* is returned, visited what the lock guards when it is released)
paginate_links(links, visited_set, build) ==
  PagLoop(PagStart(visited_set), links, 1, build)

---------------------------------------------------------------------------
(* The crawled graphs.  A world is the origin, the goal and, per title,  *)
(* the links the wiki holds for it.                                      *)

Range(seq) == {seq[i] : i \in 1..Len(seq)}

A == T("A", 1)

B == T("B", 1)

C == T("C", 1)

D == T("D", 1)

GOAL == T("GOAL", 4)

\* two titles too long to share one request
BL == T("BL", 1000)

CL == T("CL", 1000)

DL == T("DL", 1000)

EL == T("EL", 1000)

\* a title longer than the budget of a request
XL == T("XL", 1876)

\* one title more than a request may hold, of lengths 1 to 51
WideLinks == [k \in 1..(MAX_LINKS + 1) |-> T("W", k)]

TitleSet == {A, B, C, D, GOAL, BL, CL, DL, EL, XL} \cup Range(WideLinks)

NoLinks == [t \in TitleSet |-> <<>>]

\* the example graph: A -> [B, C], B -> [D], C -> [GOAL]
WorldExample ==
  [origin |-> A, goal |-> GOAL,
   links |-> [NoLinks EXCEPT ![A] = <<B, C>>, ![B] = <<D>>, ![C] = <<GOAL>>]]

\* the goal is a direct link of the origin
WorldDirect ==
  [origin |-> A, goal |-> GOAL,
   links |-> [NoLinks EXCEPT ![A] = <<B, GOAL, C>>, ![B] = <<GOAL, A, D>>,
                             ![C] = <<D, B>>]]

\* the goal is not reachable; the graph has cycles and repeated links
WorldUnreachable ==
  [origin |-> A, goal |-> GOAL,
   links |-> [NoLinks EXCEPT ![A] = <<B, C, B>>, ![B] = <<A, C>>,
                             ![C] = <<B, D>>]]

\* the origin's links need two requests; the goal is at depth 2 below CL and
\* at depth 3 below BL
WorldTwoBatches ==
  [origin |-> A, goal |-> GOAL,
   links |-> [NoLinks EXCEPT ![A] = <<BL, CL>>, ![BL] = <<D>>,
                             ![D] = <<GOAL>>, ![CL] = <<GOAL, D>>]]

\* as WorldTwoBatches, the goal one step deeper, and below BL a title longer
\* than a request may be
WorldOverlong ==
  [origin |-> A, goal |-> GOAL,
   links |-> [NoLinks EXCEPT ![A] = <<BL, CL>>, ![BL] = <<XL, D>>,
                             ![CL] = <<C>>, ![C] = <<GOAL>>]]

\* the origin's 51 links need a request of 50 titles and one more; the last
\* link leads to the goal
WorldWide ==
  [origin |-> A, goal |-> GOAL,
   links |-> [NoLinks EXCEPT ![A] = WideLinks,
                             ![WideLinks[MAX_LINKS + 1]] = <<GOAL>>]]

\* the origin's links need two requests, and each of the two links to the
\* other; the goal is below CL only
WorldBackLink ==
  [origin |-> A, goal |-> GOAL,
   links |-> [NoLinks EXCEPT ![A] = <<BL, CL>>, ![BL] = <<CL, D>>,
                             ![CL] = <<BL, GOAL>>, ![D] = <<CL, BL>>]]

\* the origin's links need four requests, more than the channel buffers;
\* below the first is a title longer than a request may be, below the second
\* the goal
WorldBlocked ==
  [origin |-> A, goal |-> GOAL,
   links |-> [NoLinks EXCEPT ![A] = <<BL, CL, DL, EL>>, ![BL] = <<XL>>,
                             ![CL] = <<GOAL>>]]

\* the user names the same article twice
WorldSame ==
  [origin |-> A, goal |-> A, links |-> WorldExample.links]

Worlds ==
  {WorldExample, WorldDirect, WorldUnreachable, WorldTwoBatches, WorldOverlong,
   WorldWide, WorldBackLink, WorldBlocked, WorldSame}

\* the builds a world is crawled by: both, but for WorldBlocked, whose crawl
\* without overflow checks adds interleavings and no case
BuildsOf(w) == IF w = WorldBlocked THEN {"debug"} ELSE Builds

---------------------------------------------------------------------------
VARIABLES
  world,            \* the graph crawled, the origin and the goal
  build,            \* overflow checks on ("debug") or off ("release")
  visited,          \* Crawler.visited
  visited_poisoned, \* the RwLock of Crawler.visited is poisoned
  finished,         \* Crawler.finished
  final_node,       \* Crawler.final_node
  channel,          \* the messages buffered in the sync_channel
  receiver_open,    \* the receiver has not been dropped
  sched_pc,         \* where start is
  to_analyse,       \* start's batch between recv and the end of get_links
  channel_failsafe, \* start's count of failed receives in a row
  thread_handlers,  \* the spawned worker tasks, in spawn order
  join_idx,         \* the handler the cleanup loop awaits next
  ret,              \* what start returned (read when sched_pc = "done")
  display_pc,       \* where display_process is
  locks,            \* per RwLock of the Crawler, the guards that are alive
  emitted,          \* history: the bag of the titles of every batch sent
  fetched,          \* history: the pairs <<article, link>> get_links returned
  fetch_failures,   \* history: the number of get_links calls that failed
  received,         \* history: the batches recv returned, in order
  fetch_log,        \* history: the get_links calls, in order, each with its
                    \* titles and "pending", "ok" or "err"
  p_links,          \* pager run: the input list
  p_visited0,       \* pager run: the visited set when the call began
  p_st,             \* pager run: the locals of paginate_links
  p_i,              \* pager run: the next link's index
  p_pc              \* pager run: "idle", "loop", "returned" or "panicked"

vars == <<world, build, visited, visited_poisoned, finished, final_node, channel, receiver_open,
          sched_pc, to_analyse, channel_failsafe, thread_handlers, join_idx,
          ret, display_pc, locks, emitted, fetched, fetch_failures,
          received, fetch_log,
          p_links, p_visited0, p_st, p_i, p_pc>>

crawl_vars == <<world, visited, visited_poisoned, finished, final_node, channel, receiver_open,
                sched_pc, to_analyse, channel_failsafe, thread_handlers,
                join_idx, ret, display_pc, locks, emitted, fetched,
                fetch_failures, received, fetch_log>>

pager_vars == <<p_links, p_visited0, p_st, p_i, p_pc>>

\* ArticleNode::new
ArticleNode(name, parent) == [name |-> name, parent |-> parent]

\* BatchData::new
BatchData(parent, new_batch) == [parent |-> parent, new_batch |-> new_batch]

\* the three locks of the Crawler (lines 58-64)
LockNames == {"visited", "finished", "final_node"}

\* a guard: who holds it ("start", "display", or "worker" and its index in
\* thread_handlers) and whether it is a read or a write guard
Guard(task, id, mode) == [task |-> task, id |-> id, mode |-> mode]

\* RwLock::read returns when no write guard is alive
CanRead(lock) == \A g \in locks[lock] : g.mode = "read"

\* RwLock::write returns when no guard is alive
CanWrite(lock) == locks[lock] = {}

\* the lock's guards when the call has returned one
Acquire(lock, g) == [locks EXCEPT ![lock] = @ \cup {g}]

\* the lock's guards when one has been dropped
Release(lock, g) == [locks EXCEPT ![lock] = @ \ {g}]

\* the messages the sync_channel buffers before a send blocks: 50000 at line
\* 108, scaled down to a capacity that the crawls of the worlds fill
ChannelCap == 1

\* the failed get_links calls one crawl is given
MaxFetchFailures == 1

\* crawl has resolved the two titles; no Crawler exists yet, and the pager
\* run is idle
Init ==
  /\ world \in Worlds
  /\ build \in BuildsOf(world)
  /\ visited = {}
  /\ visited_poisoned = FALSE
  /\ finished = 0
  /\ final_node = None
  /\ channel = <<>>
  /\ receiver_open = TRUE
  /\ sched_pc = "crawl"
  /\ to_analyse = None
  /\ channel_failsafe = 0
  /\ thread_handlers = <<>>
  /\ join_idx = 1
  /\ ret = None
  /\ display_pc = "unspawned"
  /\ locks = [lock \in LockNames |-> {}]
  /\ emitted = EmptyBag
  /\ fetched = {}
  /\ fetch_failures = 0
  /\ received = <<>>
  /\ fetch_log = <<>>
  /\ p_links = <<>>
  /\ p_visited0 = {}
  /\ p_st = PagStart({})
  /\ p_i = 1
  /\ p_pc = "idle"

---------------------------------------------------------------------------
(* wiki_api::get_links *)

\* the map get_links returns for a batch: a page without a links array is
\* skipped (wiki_api.rs line 197), every other requested page is a key
get_links(articles) ==
  [a \in {t \in Range(articles) : world.links[t] # <<>>} |-> world.links[a]]

\* the bag of a batch's titles: each title with the number of its places
TitleBag(seq) ==
  [t \in Range(seq) |-> Cardinality({i \in 1..Len(seq) : seq[i] = t})]

---------------------------------------------------------------------------
(* user_interface::crawl, from the comparison of the resolved titles on *)

\* the titles are not compared
crawlNoCheck ==
  /\ sched_pc = "crawl"
  /\ visited' = {world.origin}
  /\ sched_pc' = "start"
  /\ UNCHANGED <<world, build, visited_poisoned, finished, final_node, channel,
                 receiver_open, to_analyse, channel_failsafe, thread_handlers,
                 join_idx, ret, display_pc, emitted, fetched, fetch_failures,
                 received, fetch_log, locks, pager_vars>>

\* user_interface.rs lines 183-189: with identical titles crawl returns at
\* once; otherwise Crawler::new_arc builds the Crawler, the origin visited,
\* and start is called
crawl ==
  /\ sched_pc = "crawl"
  /\ IF world.origin = world.goal
       THEN /\ sched_pc' = "rejected"
            /\ visited' = visited
       ELSE /\ sched_pc' = "start"
            /\ visited' = {world.origin}
  /\ UNCHANGED <<world, build, visited_poisoned, finished, final_node, channel,
                 receiver_open, to_analyse, channel_failsafe, thread_handlers,
                 join_idx, ret, display_pc, emitted, fetched, fetch_failures,
                 received, fetch_log, locks, pager_vars>>

---------------------------------------------------------------------------
(* start: the main thread *)

\* lines 103-127: the display thread is spawned and the first batch sent
Start ==
  /\ sched_pc = "start"
  /\ display_pc' = "visited"
  /\ channel' = Append(channel, BatchData(None, <<world.origin>>))
  /\ emitted' = emitted (+) TitleBag(<<world.origin>>)
  /\ sched_pc' = "check"
  /\ UNCHANGED <<world, build, visited_poisoned,
                 visited, finished, final_node, receiver_open,
                 to_analyse, channel_failsafe, thread_handlers, join_idx, ret,
                 fetched, fetch_failures, received, fetch_log, locks, pager_vars>>

\* lines 129-136: the loop of start takes the read lock on the finished flag
LockFinished ==
  /\ sched_pc = "check"
  /\ CanRead("finished")
  /\ locks' = Acquire("finished", Guard("start", 0, "read"))
  /\ sched_pc' = "check_held"
  /\ UNCHANGED <<world, build, visited_poisoned,
                 visited, finished, final_node, channel,
                 receiver_open, to_analyse, channel_failsafe, thread_handlers,
                 join_idx, ret, display_pc, emitted, fetched, fetch_failures,
                 received, fetch_log, pager_vars>>

\* the drop of line 141 left out: the guard lives on into the recv
CheckFinishedKeepsGuard ==
  /\ sched_pc = "check_held"
  /\ sched_pc' = IF finished # 0 THEN "join_display" ELSE "recv"
  /\ locks' = IF finished # 0
                THEN Release("finished", Guard("start", 0, "read"))
                ELSE locks
  /\ UNCHANGED <<world, build, visited_poisoned,
                 visited, finished, final_node, channel,
                 receiver_open, to_analyse, channel_failsafe, thread_handlers,
                 join_idx, ret, display_pc, emitted, fetched, fetch_failures,
                 received, fetch_log, pager_vars>>

\* lines 137-141: the flag is read under the guard.  The guard is dropped
\* when the loop is left at line 138 and at line 141 otherwise
CheckFinished ==
  /\ sched_pc = "check_held"
  /\ sched_pc' = IF finished # 0 THEN "join_display" ELSE "recv"
  /\ locks' = Release("finished", Guard("start", 0, "read"))
  /\ UNCHANGED <<world, build, visited_poisoned,
                 visited, finished, final_node, channel,
                 receiver_open, to_analyse, channel_failsafe, thread_handlers,
                 join_idx, ret, display_pc, emitted, fetched, fetch_failures,
                 received, fetch_log, pager_vars>>

\* the check of line 159 left out: an empty batch is fetched too
RecvFetchesEmptyBatch ==
  /\ sched_pc = "recv"
  /\ channel # <<>>
  /\ channel' = Tail(channel)
  /\ channel_failsafe' = 0
  /\ received' = Append(received, Head(channel).new_batch)
  /\ sched_pc' = "fetch"
  /\ to_analyse' = Some(Head(channel))
  /\ fetch_log' = Append(fetch_log, [titles |-> Head(channel).new_batch,
                                     result |-> "pending"])
  /\ UNCHANGED <<world, build, visited_poisoned,
                 visited, finished, final_node, receiver_open,
                 thread_handlers, join_idx, ret, display_pc, emitted, fetched,
                 fetch_failures, locks, pager_vars>>

\* an empty batch taken for the end of the crawl: the loop is left
RecvEmptyEndsLoop ==
  /\ sched_pc = "recv"
  /\ channel # <<>>
  /\ channel' = Tail(channel)
  /\ channel_failsafe' = 0
  /\ received' = Append(received, Head(channel).new_batch)
  /\ IF Len(Head(channel).new_batch) = 0
       THEN /\ sched_pc' = "join_display"
            /\ to_analyse' = None
            /\ fetch_log' = fetch_log
       ELSE /\ sched_pc' = "fetch"
            /\ to_analyse' = Some(Head(channel))
            /\ fetch_log' = Append(fetch_log, [titles |-> Head(channel).new_batch,
                                               result |-> "pending"])
  /\ UNCHANGED <<world, build, visited_poisoned,
                 visited, finished, final_node, receiver_open,
                 thread_handlers, join_idx, ret, display_pc, emitted, fetched,
                 fetch_failures, locks, pager_vars>>

\* a get_links call just made: its titles, and no result yet
FetchCall(articles) == [titles |-> articles, result |-> "pending"]

\* lines 143-163: a blocking recv that succeeds and the empty-batch check;
\* for a batch that is not empty get_links is called and awaited
Recv ==
  /\ sched_pc = "recv"
  /\ channel # <<>>
  /\ channel' = Tail(channel)
  /\ channel_failsafe' = 0
  /\ received' = Append(received, Head(channel).new_batch)
  /\ IF Len(Head(channel).new_batch) = 0
       THEN /\ sched_pc' = "check"
            /\ to_analyse' = None
            /\ fetch_log' = fetch_log
       ELSE /\ sched_pc' = "fetch"
            /\ to_analyse' = Some(Head(channel))
            /\ fetch_log' = Append(fetch_log, FetchCall(Head(channel).new_batch))
  /\ UNCHANGED <<world, build, visited_poisoned,
                 visited, finished, final_node, receiver_open,
                 thread_handlers, join_idx, ret, display_pc, emitted, fetched,
                 fetch_failures, locks, pager_vars>>

\* the comparison of line 152 made strict: the sixth failure aborts
RecvErrStrict ==
  /\ sched_pc = "recv"
  /\ channel_failsafe' = channel_failsafe + 1
  /\ IF channel_failsafe' > 5
       THEN /\ sched_pc' = "done"
            /\ ret' = None
            /\ receiver_open' = FALSE
            /\ channel' = <<>>
       ELSE /\ sched_pc' = "check"
            /\ UNCHANGED <<ret, receiver_open, channel>>
  /\ UNCHANGED <<world, build, visited_poisoned, visited, finished, final_node,
                 to_analyse, thread_handlers, join_idx, display_pc, emitted,
                 fetched, fetch_failures, received, fetch_log, locks, pager_vars>>

\* lines 148-156: recv returns Err.  The failure is counted; the fifth in a
\* row makes start return None (its receiver is dropped with it), an earlier
\* one sends it back to the top of its loop
RecvErr ==
  /\ sched_pc = "recv"
  /\ channel_failsafe' = channel_failsafe + 1
  /\ IF channel_failsafe' >= 5
       THEN /\ sched_pc' = "done"
            /\ ret' = None
            /\ receiver_open' = FALSE
            /\ channel' = <<>>
       ELSE /\ sched_pc' = "check"
            /\ UNCHANGED <<ret, receiver_open, channel>>
  /\ UNCHANGED <<world, build, visited_poisoned, visited, finished, final_node,
                 to_analyse, thread_handlers, join_idx, display_pc, emitted,
                 fetched, fetch_failures, received, fetch_log, locks, pager_vars>>

\* the task tokio::spawn creates at lines 173-175, not yet polled
NewWorker(new_batches, parent) ==
  [pc |-> "iter",
   new_batches |-> new_batches,
   rest |-> DOMAIN new_batches,
   parent |-> parent,
   article |-> None,
   to_send |-> <<>>,
   tries |-> 0]

\* lines 163-177: get_links succeeds and a worker task is spawned
FetchOk ==
  /\ sched_pc = "fetch"
  /\ LET new_batches == get_links(to_analyse[1].new_batch)
     IN  /\ fetched' = fetched \cup
                UNION {{<<a, l>> : l \in Range(new_batches[a])} :
                         a \in DOMAIN new_batches}
         /\ thread_handlers' =
              Append(thread_handlers, NewWorker(new_batches, to_analyse[1].parent))
  /\ fetch_log' = [fetch_log EXCEPT ![Len(fetch_log)].result = "ok"]
  /\ to_analyse' = None
  /\ sched_pc' = "check"
  /\ UNCHANGED <<world, build, visited_poisoned,
                 visited, finished, final_node, channel,
                 receiver_open, channel_failsafe, join_idx, ret, display_pc,
                 emitted, fetch_failures, received, locks, pager_vars>>

\* the batch of a failed call put back on the channel
FetchErrRequeues ==
  /\ sched_pc = "fetch"
  /\ fetch_failures < MaxFetchFailures
  /\ fetch_failures' = fetch_failures + 1
  /\ fetch_log' = [fetch_log EXCEPT ![Len(fetch_log)].result = "err"]
  /\ channel' = Append(channel, to_analyse[1])
  /\ to_analyse' = None
  /\ sched_pc' = "check"
  /\ UNCHANGED <<world, build, visited_poisoned,
                 visited, finished, final_node,
                 receiver_open, channel_failsafe, thread_handlers, join_idx,
                 ret, display_pc, emitted, fetched, received, locks, pager_vars>>

\* lines 163-169: get_links fails and the batch is dropped
FetchErr ==
  /\ sched_pc = "fetch"
  /\ fetch_failures < MaxFetchFailures
  /\ fetch_failures' = fetch_failures + 1
  /\ fetch_log' = [fetch_log EXCEPT ![Len(fetch_log)].result = "err"]
  /\ to_analyse' = None
  /\ sched_pc' = "check"
  /\ UNCHANGED <<world, build, visited_poisoned,
                 visited, finished, final_node, channel,
                 receiver_open, channel_failsafe, thread_handlers, join_idx,
                 ret, display_pc, emitted, fetched, received, locks, pager_vars>>

\* lines 180-186: the join of the display thread returns
JoinDisplay ==
  /\ sched_pc = "join_display"
  /\ display_pc = "exited"
  /\ sched_pc' = "drop_receiver"
  /\ UNCHANGED <<world, build, visited_poisoned,
                 visited, finished, final_node, channel,
                 receiver_open, to_analyse, channel_failsafe, thread_handlers,
                 join_idx, ret, display_pc, emitted, fetched, fetch_failures,
                 received, fetch_log, locks, pager_vars>>

\* the receiver dropped, the buffered messages kept
DropReceiverKeepsBuffer ==
  /\ sched_pc = "drop_receiver"
  /\ receiver_open' = FALSE
  /\ sched_pc' = "await"
  /\ UNCHANGED <<world, build, visited_poisoned,
                 visited, finished, final_node, channel,
                 to_analyse, channel_failsafe, thread_handlers, join_idx, ret,
                 display_pc, emitted, fetched, fetch_failures, received, fetch_log, locks, pager_vars>>

\* line 188: the receiver is dropped, and the buffered messages with it
DropReceiver ==
  /\ sched_pc = "drop_receiver"
  /\ receiver_open' = FALSE
  /\ channel' = <<>>
  /\ sched_pc' = "await"
  /\ UNCHANGED <<world, build, visited_poisoned,
                 visited, finished, final_node, to_analyse,
                 channel_failsafe, thread_handlers, join_idx, ret, display_pc,
                 emitted, fetched, fetch_failures, received, fetch_log, locks, pager_vars>>

\* the handler taken for joined while its task still runs
AwaitHandlerNoWait ==
  /\ sched_pc = "await"
  /\ join_idx <= Len(thread_handlers)
  /\ thread_handlers[join_idx].pc # "panicked"
  /\ join_idx' = join_idx + 1
  /\ UNCHANGED <<world, build, visited_poisoned,
                 visited, finished, final_node, channel,
                 receiver_open, sched_pc, to_analyse, channel_failsafe,
                 thread_handlers, ret, display_pc, emitted, fetched,
                 fetch_failures, received, fetch_log, locks, pager_vars>>

\* lines 190-198: the next handler's task has completed
AwaitHandler ==
  /\ sched_pc = "await"
  /\ join_idx <= Len(thread_handlers)
  /\ thread_handlers[join_idx].pc = "done"
  /\ join_idx' = join_idx + 1
  /\ UNCHANGED <<world, build, visited_poisoned,
                 visited, finished, final_node, channel,
                 receiver_open, sched_pc, to_analyse, channel_failsafe,
                 thread_handlers, ret, display_pc, emitted, fetched,
                 fetch_failures, received, fetch_log, locks, pager_vars>>

\* the JoinError ignored: the next handler is awaited
AwaitHandlerErrIgnored ==
  /\ sched_pc = "await"
  /\ join_idx <= Len(thread_handlers)
  /\ thread_handlers[join_idx].pc = "panicked"
  /\ join_idx' = join_idx + 1
  /\ UNCHANGED <<world, build, visited_poisoned,
                 visited, finished, final_node, channel, receiver_open,
                 sched_pc, ret, to_analyse, channel_failsafe, thread_handlers,
                 display_pc, emitted, fetched, fetch_failures, received, fetch_log, locks, pager_vars>>

\* lines 190-198: the next handler's task has panicked; start returns None
AwaitHandlerErr ==
  /\ sched_pc = "await"
  /\ join_idx <= Len(thread_handlers)
  /\ thread_handlers[join_idx].pc = "panicked"
  /\ ret' = None
  /\ sched_pc' = "done"
  /\ UNCHANGED <<world, build, visited_poisoned,
                 visited, finished, final_node, channel, receiver_open,
                 to_analyse, channel_failsafe, thread_handlers, join_idx,
                 display_pc, emitted, fetched, fetch_failures, received, fetch_log, locks, pager_vars>>

---------------------------------------------------------------------------
(* Arc strong counts, as the holders the state shows *)

\* a task that returned or panicked: its locals are dropped
Over(w) == w.pc \in {"done", "panicked"}

\* the ArticleNode a worker holds in an Arc while it sends an article's
\* batches (lines 365-366)
article_node(w) == ArticleNode(w.article[1], w.parent)

\* the task holds the Arc of its article's node: from line 366 until it
\* returns or takes the next pair
HoldsArticleNode(w) ==
  w.pc \in {"visited_held", "send", "send_failed", "flag_held"}

\* the references to the Arc of node n held outside the tree: by buffered
\* messages, by start's batch, and by the locals of running workers
RootCount(n) ==
    Cardinality({i \in 1..Len(channel) : channel[i].parent = Some(n)})
  + (IF to_analyse # None /\ to_analyse[1].parent = Some(n) THEN 1 ELSE 0)
  + Cardinality({i \in 1..Len(thread_handlers) :
        ~Over(thread_handlers[i]) /\ thread_handlers[i].parent = Some(n)})
  + Cardinality({i \in 1..Len(thread_handlers) :
        /\ HoldsArticleNode(thread_handlers[i])
        /\ article_node(thread_handlers[i]) = n})

\* a node and its ancestors
RECURSIVE Chain(_)
Chain(n) == IF n.parent = None THEN {n} ELSE {n} \cup Chain(n.parent[1])

\* the nodes that exist: those referenced from outside the tree, the final
\* node, and their ancestors
LiveNodes ==
  UNION {Chain(channel[i].parent[1]) :
           i \in {j \in 1..Len(channel) : channel[j].parent # None}}
  \cup (IF to_analyse # None /\ to_analyse[1].parent # None
          THEN Chain(to_analyse[1].parent[1]) ELSE {})
  \cup UNION {Chain(thread_handlers[i].parent[1]) :
           i \in {j \in 1..Len(thread_handlers) :
                    ~Over(thread_handlers[j])
                    /\ thread_handlers[j].parent # None}}
  \cup UNION {Chain(article_node(thread_handlers[i])) :
           i \in {j \in 1..Len(thread_handlers) :
                    HoldsArticleNode(thread_handlers[j])}}
  \cup (IF final_node # None THEN Chain(final_node[1]) ELSE {})

\* Arc::strong_count of the Arc that holds node n
strong_count(n) ==
  RootCount(n) + Cardinality({m \in LiveNodes : m.parent = Some(n)})

\* Arc::strong_count of the Arc<Crawler>: start's own, the display thread's
\* clone and one clone per running worker
crawler_strong_count ==
    1
  + (IF display_pc \in {"visited", "finished"} THEN 1 ELSE 0)
  + Cardinality({i \in 1..Len(thread_handlers) : ~Over(thread_handlers[i])})

---------------------------------------------------------------------------
(* detravel_path *)

Reverse(seq) == [i \in 1..Len(seq) |-> seq[Len(seq) + 1 - i]]

\* the loop of lines 289-302 from node on: Some(names pushed) or, when an
\* Arc::try_unwrap fails, None
RECURSIVE Travel(_)
Travel(node) ==
  IF node.parent = None THEN Some(<<node.name>>)
  ELSE IF strong_count(node.parent[1]) # 1 THEN None
  ELSE LET up == Travel(node.parent[1])
       IN  IF up = None THEN None ELSE Some(<<node.name>> \o up[1])

detravel_path ==
  IF final_node = None THEN None
  ELSE LET constructed == Travel(final_node[1])
       IN  IF constructed = None THEN None ELSE Some(Reverse(constructed[1]))

\* lines 190-207: every handler awaited; Arc::try_unwrap and detravel_path
Finish ==
  /\ sched_pc = "await"
  /\ join_idx > Len(thread_handlers)
  /\ ret' = IF crawler_strong_count # 1 THEN None ELSE detravel_path
  /\ sched_pc' = "done"
  /\ UNCHANGED <<world, build, visited_poisoned,
                 visited, finished, final_node, channel,
                 receiver_open, to_analyse, channel_failsafe, thread_handlers,
                 join_idx, display_pc, emitted, fetched, fetch_failures,
                 received, fetch_log, locks, pager_vars>>

---------------------------------------------------------------------------
(* display_process *)

\* lines 221-227: the read lock on the visited set is taken; with the lock
\* poisoned the call fails, the thread sleeps and the loop starts over
DisplayLockVisited ==
  /\ display_pc = "visited"
  /\ CanRead("visited")
  /\ IF visited_poisoned
       THEN UNCHANGED <<display_pc, locks>>
       ELSE /\ display_pc' = "visited_held"
            /\ locks' = Acquire("visited", Guard("display", 0, "read"))
  /\ UNCHANGED <<world, build, visited_poisoned,
                 visited, finished, final_node, channel,
                 receiver_open, sched_pc, to_analyse, channel_failsafe,
                 thread_handlers, join_idx, ret, emitted, fetched,
                 fetch_failures, received, fetch_log, pager_vars>>

\* lines 229-246: the size of the visited set is read, the guard dropped and
\* the size printed
DisplayVisited ==
  /\ display_pc = "visited_held"
  /\ display_pc' = "finished"
  /\ locks' = Release("visited", Guard("display", 0, "read"))
  /\ UNCHANGED <<world, build, visited_poisoned,
                 visited, finished, final_node, channel,
                 receiver_open, sched_pc, to_analyse, channel_failsafe,
                 thread_handlers, join_idx, ret, emitted, fetched,
                 fetch_failures, received, fetch_log, pager_vars>>

\* lines 248-254: the read lock on the finished flag is taken
DisplayLockFinished ==
  /\ display_pc = "finished"
  /\ CanRead("finished")
  /\ display_pc' = "finished_held"
  /\ locks' = Acquire("finished", Guard("display", 0, "read"))
  /\ UNCHANGED <<world, build, visited_poisoned,
                 visited, finished, final_node, channel,
                 receiver_open, sched_pc, to_analyse, channel_failsafe,
                 thread_handlers, join_idx, ret, emitted, fetched,
                 fetch_failures, received, fetch_log, pager_vars>>

\* lines 255-259: the finished flag is read; the thread ends once it is set.
\* The guard is dropped at the end of the iteration
DisplayFinished ==
  /\ display_pc = "finished_held"
  /\ display_pc' = IF finished # 0 THEN "exited" ELSE "visited"
  /\ locks' = Release("finished", Guard("display", 0, "read"))
  /\ UNCHANGED <<world, build, visited_poisoned,
                 visited, finished, final_node, channel,
                 receiver_open, sched_pc, to_analyse, channel_failsafe,
                 thread_handlers, join_idx, ret, emitted, fetched,
                 fetch_failures, received, fetch_log, pager_vars>>

---------------------------------------------------------------------------
(* threaded_processing: worker task i *)

\* only the first candidate compared with the goal
HasGoalFirstOnly(links) == links # <<>> /\ links[1] = world.goal

\* every candidate taken for the goal
HasGoalAnyCandidate(links) == links # <<>>

\* line 323, over the candidates of one article
HasGoal(links) == world.goal \in Range(links)

\* lines 320-339: the next article of the map links to the goal; the write
\* lock on the finished flag is taken
WorkerLockFinished(i) ==
  /\ thread_handlers[i].pc = "iter"
  /\ CanWrite("finished")
  /\ \E article \in thread_handlers[i].rest :
       /\ HasGoal(thread_handlers[i].new_batches[article])
       /\ thread_handlers' = [thread_handlers EXCEPT
              ![i].pc = "finished_held",
              ![i].article = Some(article),
              ![i].rest = @ \ {article}]
  /\ locks' = Acquire("finished", Guard("worker", i, "write"))
  /\ UNCHANGED <<world, build, visited_poisoned,
                 visited, finished, final_node, channel, receiver_open,
                 sched_pc, to_analyse, channel_failsafe, join_idx, ret,
                 display_pc, emitted, fetched, fetch_failures, received, fetch_log, pager_vars>>

\* lines 340-342: the finished flag is written and the guard dropped
WorkerMarkFinished(i) ==
  /\ thread_handlers[i].pc = "finished_held"
  /\ finished' = 1
  /\ thread_handlers' = [thread_handlers EXCEPT ![i].pc = "write_node"]
  /\ locks' = Release("finished", Guard("worker", i, "write"))
  /\ UNCHANGED <<world, build, visited_poisoned,
                 visited, final_node, channel, receiver_open,
                 sched_pc, to_analyse, channel_failsafe, join_idx, ret,
                 display_pc, emitted, fetched, fetch_failures, received, fetch_log, pager_vars>>

\* lines 344-357: the write lock on the final node is taken
WorkerLockNode(i) ==
  /\ thread_handlers[i].pc = "write_node"
  /\ CanWrite("final_node")
  /\ thread_handlers' = [thread_handlers EXCEPT ![i].pc = "node_held"]
  /\ locks' = Acquire("final_node", Guard("worker", i, "write"))
  /\ UNCHANGED <<world, build, visited_poisoned,
                 visited, finished, final_node, channel, receiver_open,
                 sched_pc, to_analyse, channel_failsafe, join_idx, ret,
                 display_pc, emitted, fetched, fetch_failures, received, fetch_log, pager_vars>>

\* the article's node built without the batch's parent
WorkerWriteNodeNoParent(i) ==
  /\ thread_handlers[i].pc = "node_held"
  /\ final_node' = Some(ArticleNode(world.goal,
         Some(ArticleNode(thread_handlers[i].article[1], None))))
  /\ thread_handlers' = [thread_handlers EXCEPT ![i].pc = "done"]
  /\ locks' = Release("final_node", Guard("worker", i, "write"))
  /\ UNCHANGED <<world, build, visited_poisoned,
                 visited, finished, channel, receiver_open,
                 sched_pc, to_analyse, channel_failsafe, join_idx, ret,
                 display_pc, emitted, fetched, fetch_failures, received, fetch_log, pager_vars>>

\* the return of line 360 left out: the task goes on to its next pair
WorkerWriteNodeContinues(i) ==
  /\ thread_handlers[i].pc = "node_held"
  /\ final_node' = Some(ArticleNode(world.goal,
         Some(ArticleNode(thread_handlers[i].article[1],
                          thread_handlers[i].parent))))
  /\ thread_handlers' = [thread_handlers EXCEPT ![i].pc = "iter",
                                                ![i].article = None]
  /\ locks' = Release("final_node", Guard("worker", i, "write"))
  /\ UNCHANGED <<world, build, visited_poisoned,
                 visited, finished, channel, receiver_open,
                 sched_pc, to_analyse, channel_failsafe, join_idx, ret,
                 display_pc, emitted, fetched, fetch_failures, received, fetch_log, pager_vars>>

\* lines 358-360: the final node is written and the task returns, which
\* drops the guard
WorkerWriteNode(i) ==
  /\ thread_handlers[i].pc = "node_held"
  /\ final_node' = Some(ArticleNode(world.goal,
         Some(ArticleNode(thread_handlers[i].article[1],
                          thread_handlers[i].parent))))
  /\ thread_handlers' = [thread_handlers EXCEPT ![i].pc = "done"]
  /\ locks' = Release("final_node", Guard("worker", i, "write"))
  /\ UNCHANGED <<world, build, visited_poisoned,
                 visited, finished, channel, receiver_open,
                 sched_pc, to_analyse, channel_failsafe, join_idx, ret,
                 display_pc, emitted, fetched, fetch_failures, received, fetch_log, pager_vars>>

\* the goal scan of lines 322-323 left out: any article's links are paginated
WorkerLockVisitedAnyLinks(i) ==
  /\ thread_handlers[i].pc = "iter"
  /\ ~visited_poisoned
  /\ CanWrite("visited")
  /\ \E article \in thread_handlers[i].rest :
       thread_handlers' = [thread_handlers EXCEPT
              ![i].pc = "visited_held",
              ![i].article = Some(article),
              ![i].rest = @ \ {article}]
  /\ locks' = Acquire("visited", Guard("worker", i, "write"))
  /\ UNCHANGED <<world, build, visited, visited_poisoned, finished, final_node, channel, receiver_open,
                 sched_pc, to_analyse, channel_failsafe, join_idx, ret,
                 display_pc, emitted, fetched, fetch_failures, received, fetch_log, pager_vars>>

\* lines 320-366 and 403-439: the next article of the map does not link to
\* the goal; its node is built, paginate_links is entered and takes the write
\* lock on the visited set
WorkerLockVisited(i) ==
  /\ thread_handlers[i].pc = "iter"
  /\ ~visited_poisoned
  /\ CanWrite("visited")
  /\ \E article \in thread_handlers[i].rest :
       /\ ~HasGoal(thread_handlers[i].new_batches[article])
       /\ thread_handlers' = [thread_handlers EXCEPT
              ![i].pc = "visited_held",
              ![i].article = Some(article),
              ![i].rest = @ \ {article}]
  /\ locks' = Acquire("visited", Guard("worker", i, "write"))
  /\ UNCHANGED <<world, build, visited, visited_poisoned, finished, final_node, channel, receiver_open,
                 sched_pc, to_analyse, channel_failsafe, join_idx, ret,
                 display_pc, emitted, fetched, fetch_failures, received, fetch_log, pager_vars>>

\* lines 440-464: the article's links are paginated under the write lock, the
\* guard is dropped and the batches returned.  A panic in the loop unwinds
\* with the guard alive: dropping it then poisons the lock
WorkerPaginate(i) ==
  /\ thread_handlers[i].pc = "visited_held"
  /\ LET w == thread_handlers[i]
         st == paginate_links(w.new_batches[w.article[1]], visited, build)
     IN  /\ visited' = st.visited
         /\ visited_poisoned' = st.panicked
         /\ thread_handlers' = [thread_handlers EXCEPT ![i] =
              IF st.panicked
                THEN [@ EXCEPT !.pc = "panicked"]
                ELSE [@ EXCEPT !.pc = "send", !.to_send = st.link_batches]]
  /\ locks' = Release("visited", Guard("worker", i, "write"))
  /\ UNCHANGED <<world, build, finished, final_node, channel, receiver_open,
                 sched_pc, to_analyse, channel_failsafe, join_idx, ret,
                 display_pc, emitted, fetched, fetch_failures, received, fetch_log, pager_vars>>

\* the retries of the locking loops of threaded_processing and paginate_links
MAX_TRIES == 10

\* the check of line 433 left out: the loop tries again whatever tries is
WorkerPaginatePoisonedNoBound(i) ==
  /\ thread_handlers[i].pc \in {"iter", "visited_lock"}
  /\ visited_poisoned
  /\ thread_handlers[i].pc = "iter" =>
       \E article \in thread_handlers[i].rest :
         ~HasGoal(thread_handlers[i].new_batches[article])
  /\ thread_handlers' = [thread_handlers EXCEPT ![i].pc = "visited_lock",
                                                ![i].tries = @ + 1]
  /\ UNCHANGED <<world, build, visited_poisoned,
                 visited, finished, final_node, channel, receiver_open,
                 sched_pc, to_analyse, channel_failsafe, join_idx, ret,
                 display_pc, emitted, fetched, fetch_failures, received, fetch_log, locks, pager_vars>>

\* lines 422-439: paginate_links is entered for an article that does not
\* link to the goal, or is in its locking loop, and the write lock on visited
\* is poisoned: one try fails.  With tries at MAX_TRIES the task panics,
\* otherwise tries is incremented and the loop tries again
WorkerPaginatePoisoned(i) ==
  /\ thread_handlers[i].pc \in {"iter", "visited_lock"}
  /\ visited_poisoned
  /\ thread_handlers[i].pc = "iter" =>
       \E article \in thread_handlers[i].rest :
         ~HasGoal(thread_handlers[i].new_batches[article])
  /\ thread_handlers' = [thread_handlers EXCEPT ![i] =
       IF @.tries >= MAX_TRIES
         THEN [@ EXCEPT !.pc = "panicked"]
         ELSE [@ EXCEPT !.pc = "visited_lock", !.tries = @ + 1]]
  /\ UNCHANGED <<world, build, visited_poisoned,
                 visited, finished, final_node, channel, receiver_open,
                 sched_pc, to_analyse, channel_failsafe, join_idx, ret,
                 display_pc, emitted, fetched, fetch_failures, received, fetch_log, locks, pager_vars>>

\* the worker's state when the loop of line 368 has taken its next batch
AfterSend(w) ==
  IF Len(w.to_send) = 1
    THEN [w EXCEPT !.pc = "iter", !.to_send = <<>>, !.article = None]
    ELSE [w EXCEPT !.to_send = Tail(@)]

\* the flag not read after a failed send: the task goes on with its batches
WorkerSendIgnoresFlag(i) ==
  /\ thread_handlers[i].pc = "send"
  /\ LET w == thread_handlers[i]
         msg == BatchData(Some(article_node(w)), Head(w.to_send))
     IN  /\ emitted' = emitted (+) TitleBag(msg.new_batch)
         /\ IF receiver_open
              THEN /\ Len(channel) < ChannelCap
                   /\ channel' = Append(channel, msg)
              ELSE channel' = channel
         /\ thread_handlers' = [thread_handlers EXCEPT ![i] = AfterSend(w)]
  /\ UNCHANGED <<world, build, visited_poisoned,
                 visited, finished, final_node, receiver_open,
                 sched_pc, to_analyse, channel_failsafe, join_idx, ret,
                 display_pc, fetched, fetch_failures, received, fetch_log, locks, pager_vars>>

\* lines 368-373: one send.  With the receiver alive the message is buffered
\* (the send blocks while the buffer is full); with the receiver dropped the
\* send fails
WorkerSend(i) ==
  /\ thread_handlers[i].pc = "send"
  /\ LET w == thread_handlers[i]
         msg == BatchData(Some(article_node(w)), Head(w.to_send))
     IN  /\ emitted' = emitted (+) TitleBag(msg.new_batch)
         /\ IF receiver_open
              THEN /\ Len(channel) < ChannelCap
                   /\ channel' = Append(channel, msg)
                   /\ thread_handlers' = [thread_handlers EXCEPT ![i] = AfterSend(w)]
              ELSE /\ channel' = channel
                   /\ thread_handlers' = [thread_handlers EXCEPT ![i].pc = "send_failed"]
  /\ UNCHANGED <<world, build, visited_poisoned,
                 visited, finished, final_node, receiver_open,
                 sched_pc, to_analyse, channel_failsafe, join_idx, ret,
                 display_pc, fetched, fetch_failures, received, fetch_log, locks, pager_vars>>

\* lines 374-381: after a failed send the read lock on the finished flag is
\* taken
WorkerLockFlag(i) ==
  /\ thread_handlers[i].pc = "send_failed"
  /\ CanRead("finished")
  /\ thread_handlers' = [thread_handlers EXCEPT ![i].pc = "flag_held"]
  /\ locks' = Acquire("finished", Guard("worker", i, "read"))
  /\ UNCHANGED <<world, build, visited_poisoned,
                 visited, finished, final_node, channel, receiver_open,
                 sched_pc, to_analyse, channel_failsafe, join_idx, ret,
                 display_pc, emitted, fetched, fetch_failures, received, fetch_log, pager_vars>>

\* lines 382-386: the flag is read: the task returns if it is 1 and goes on
\* with its batches otherwise; the guard is dropped either way
WorkerReadFlag(i) ==
  /\ thread_handlers[i].pc = "flag_held"
  /\ thread_handlers' = [thread_handlers EXCEPT ![i] =
       IF finished = 1
         THEN [@ EXCEPT !.pc = "done"]
         ELSE AfterSend(@)]
  /\ locks' = Release("finished", Guard("worker", i, "read"))
  /\ UNCHANGED <<world, build, visited_poisoned,
                 visited, finished, final_node, channel, receiver_open,
                 sched_pc, to_analyse, channel_failsafe, join_idx, ret,
                 display_pc, emitted, fetched, fetch_failures, received, fetch_log, pager_vars>>

\* line 389-390: the map is exhausted and the task returns
WorkerReturn(i) ==
  /\ thread_handlers[i].pc = "iter"
  /\ thread_handlers[i].rest = {}
  /\ thread_handlers' = [thread_handlers EXCEPT ![i].pc = "done"]
  /\ UNCHANGED <<world, build, visited_poisoned,
                 visited, finished, final_node, channel,
                 receiver_open, sched_pc, to_analyse, channel_failsafe,
                 join_idx, ret, display_pc, emitted, fetched, fetch_failures,
                 received, fetch_log, locks, pager_vars>>

Next ==
  \/ crawl
  \/ Start
  \/ LockFinished
  \/ CheckFinished
  \/ Recv
  \/ FetchOk
  \/ FetchErr
  \/ JoinDisplay
  \/ DropReceiver
  \/ AwaitHandler
  \/ AwaitHandlerErr
  \/ Finish
  \/ DisplayLockVisited
  \/ DisplayVisited
  \/ DisplayLockFinished
  \/ DisplayFinished
  \/ \E i \in 1..Len(thread_handlers) : WorkerLockFinished(i)
  \/ \E i \in 1..Len(thread_handlers) : WorkerMarkFinished(i)
  \/ \E i \in 1..Len(thread_handlers) : WorkerLockNode(i)
  \/ \E i \in 1..Len(thread_handlers) : WorkerWriteNode(i)
  \/ \E i \in 1..Len(thread_handlers) : WorkerLockVisited(i)
  \/ \E i \in 1..Len(thread_handlers) : WorkerPaginate(i)
  \/ \E i \in 1..Len(thread_handlers) : WorkerPaginatePoisoned(i)
  \/ \E i \in 1..Len(thread_handlers) : WorkerSend(i)
  \/ \E i \in 1..Len(thread_handlers) : WorkerLockFlag(i)
  \/ \E i \in 1..Len(thread_handlers) : WorkerReadFlag(i)
  \/ \E i \in 1..Len(thread_handlers) : WorkerReturn(i)

Spec == Init /\ [][Next]_vars

---------------------------------------------------------------------------
(* One call of paginate_links, iteration by iteration, on inputs drawn    *)
(* from bounded sets.                                                     *)

\* the longest list of links given to a pager run
MaxPagLinks == 52

\* the longest list of long titles, and of mixed titles, given to a pager run
MaxLongLinks == 4

MaxMixedLen == 3

\* n distinct titles of length l
UniformLinks(n, l) == [i \in 1..n |-> T(i, l)]

\* lengths at which the 50-link cap is met first (1, 36) and not (37)
ShortLens == {1, 36, 37}

\* lengths about half the budget, at the budget and over it
LongLens == {937, 938, 1874, 1875, 1876}

MixedTitles == {T(1, 1), T(2, 937), T(3, 1875), T(4, 1876)}

MixedLinks == UNION {[1..n -> MixedTitles] : n \in 0..MaxMixedLen}

PagInputs ==
  {UniformLinks(n, l) : n \in 0..MaxPagLinks, l \in ShortLens}
  \cup {UniformLinks(n, l) : n \in 0..MaxLongLinks, l \in LongLens}
  \cup MixedLinks

\* the crawl not running
CrawlIdle ==
  /\ world = WorldExample
  /\ visited = {}
  /\ visited_poisoned = FALSE
  /\ finished = 0
  /\ final_node = None
  /\ channel = <<>>
  /\ receiver_open = TRUE
  /\ sched_pc = "idle"
  /\ to_analyse = None
  /\ channel_failsafe = 0
  /\ thread_handlers = <<>>
  /\ join_idx = 1
  /\ ret = None
  /\ display_pc = "unspawned"
  /\ locks = [lock \in LockNames |-> {}]
  /\ emitted = EmptyBag
  /\ fetched = {}
  /\ fetch_failures = 0
  /\ received = <<>>
  /\ fetch_log = <<>>

\* line 403-439: the call is entered with some links and some visited set
PagInit ==
  /\ CrawlIdle
  /\ build \in Builds
  /\ p_links \in PagInputs
  /\ p_visited0 \in {{}, {T(2, 1)}, {T(2, 937), T(3, 1875)}, {T(1, 36), T(51, 36)}}
  /\ p_st = PagStart(p_visited0)
  /\ p_i = 1
  /\ p_pc = "loop"

\* lines 440-462: one iteration
PagIterate ==
  /\ p_pc = "loop"
  /\ p_i <= Len(p_links)
  /\ p_st' = PagStep(p_st, p_links[p_i], build)
  /\ p_i' = p_i + 1
  /\ p_pc' = IF p_st'.panicked THEN "panicked" ELSE "loop"
  /\ UNCHANGED <<crawl_vars, build, p_links, p_visited0>>

\* lines 463-464: the lock is released and link_batches returned
PagReturn ==
  /\ p_pc = "loop"
  /\ p_i > Len(p_links)
  /\ p_pc' = "returned"
  /\ UNCHANGED <<crawl_vars, build, p_links, p_visited0, p_st, p_i>>

PagNext == PagIterate \/ PagReturn

PagSpec == PagInit /\ [][PagNext]_vars

---------------------------------------------------------------------------
(* The loop of start on drawn results of recv.  In a crawl start owns a    *)
(* sender for as long as it runs (line 108), so its recv never returns     *)
(* Err; here each call's result is drawn: Ok with the next batch buffered, *)
(* or Err.  The batches are empty, so that the loop goes no further than   *)
(* line 160.                                                               *)

\* the most batches a run of the loop is given
MaxRecvRun == 6

\* start in its loop, the display thread spawned, some empty batches to come
RecvInit ==
  /\ world = WorldExample
  /\ build \in Builds
  /\ visited = {world.origin}
  /\ visited_poisoned = FALSE
  /\ finished = 0
  /\ final_node = None
  /\ channel \in {[k \in 1..n |-> BatchData(None, <<>>)] : n \in 0..MaxRecvRun}
  /\ receiver_open = TRUE
  /\ sched_pc = "check"
  /\ to_analyse = None
  /\ channel_failsafe = 0
  /\ thread_handlers = <<>>
  /\ join_idx = 1
  /\ ret = None
  /\ display_pc = "visited"
  /\ locks = [lock \in LockNames |-> {}]
  /\ emitted = EmptyBag
  /\ fetched = {}
  /\ fetch_failures = 0
  /\ received = <<>>
  /\ fetch_log = <<>>
  /\ p_links = <<>>
  /\ p_visited0 = {}
  /\ p_st = PagStart({})
  /\ p_i = 1
  /\ p_pc = "idle"

RecvNext == LockFinished \/ CheckFinished \/ Recv \/ RecvErr

RecvSpec == RecvInit /\ [][RecvNext]_vars

\* every thread and task that can take a step eventually takes one: the
\* main thread, the display thread and the worker tasks each run on a thread
\* of their own or of the runtime's pool.  A task that waits for a write
\* lock gets it: the display thread holds its guards for an instant of each
\* iteration and sleeps two seconds without one
Fairness ==
  /\ WF_vars(crawl \/ Start \/ LockFinished \/ CheckFinished \/ Recv \/ FetchOk
             \/ JoinDisplay \/ DropReceiver \/ AwaitHandler \/ AwaitHandlerErr
             \/ Finish)
  /\ WF_vars(DisplayLockVisited \/ DisplayVisited \/ DisplayLockFinished
             \/ DisplayFinished)
  /\ WF_vars(\E i \in 1..Len(thread_handlers) :
               \/ WorkerLockFinished(i)
               \/ WorkerMarkFinished(i)
               \/ WorkerLockNode(i)
               \/ WorkerWriteNode(i)
               \/ WorkerLockVisited(i)
               \/ WorkerPaginate(i)
               \/ WorkerPaginatePoisoned(i)
               \/ WorkerSend(i)
               \/ WorkerLockFlag(i)
               \/ WorkerReadFlag(i)
               \/ WorkerReturn(i))
  /\ SF_vars(\E i \in 1..Len(thread_handlers) :
               WorkerLockFinished(i) \/ WorkerLockVisited(i))

FairSpec == Spec /\ Fairness

---------------------------------------------------------------------------
(* Properties *)

Returned == sched_pc = "done"

\* C1: a returned path starts at the origin, ends at the goal, and each of
\* its titles but the first is among the links a fetch returned for the
\* title before it
C1_PathFollowsFetchedLinks ==
  (Returned /\ ret # None) =>
     LET path == ret[1]
     IN  /\ Len(path) >= 1
         /\ path[1] = world.origin
         /\ path[Len(path)] = world.goal
         /\ \A k \in 1..(Len(path) - 1) : <<path[k], path[k + 1]>> \in fetched

C1_Witness ==
  /\ Returned
  /\ ret # None
  /\ Len(ret[1]) = 4

\* the number of edges of a shortest path from the titles of S to the goal
\* in the graph of the fetched links, S being k edges away from the origin
\* (-1: there is none)
RECURSIVE DistFrom(_, _)
DistFrom(S, k) ==
  IF world.goal \in S THEN k
  ELSE LET S2 == S \cup {v \in TitleSet : \E u \in S : <<u, v>> \in fetched}
       IN  IF S2 = S THEN -1 ELSE DistFrom(S2, k + 1)

\* C2: a returned path has the least number of edges among the paths from
\* the origin to the goal in the graph of the fetched links
C2_PathIsShortest ==
  (Returned /\ ret # None) =>
     Len(ret[1]) - 1 = DistFrom({world.origin}, 0)

\* C2, the example alone: on A -> [B, C], B -> [D], C -> [GOAL] a returned
\* path is [A, C, GOAL]
C2_ExamplePath ==
  (Returned /\ ret # None /\ world = WorldExample) => ret[1] = <<A, C, GOAL>>

\* C3: when the goal is among the links fetched for the origin, a returned
\* path is [origin, goal]
C3_DirectLink ==
  (Returned /\ ret # None /\ <<world.origin, world.goal>> \in fetched) =>
     ret[1] = <<world.origin, world.goal>>

C3_Witness ==
  /\ Returned
  /\ <<world.origin, world.goal>> \in fetched
  /\ ret = Some(<<world.origin, world.goal>>)

\* no path leads from the origin to the goal in the graph crawled
RECURSIVE ReachableFrom(_)
ReachableFrom(S) ==
  LET S2 == S \cup UNION {Range(world.links[u]) : u \in S}
  IN  IF S2 = S THEN S ELSE ReachableFrom(S2)

GoalUnreachable == world.goal \notin ReachableFrom({world.origin})

\* C4: when the goal is not reachable from the origin and every batch is
\* fetched, start eventually returns, with no path
C4_UnreachableGoalReturns ==
  (GoalUnreachable /\ [](fetch_failures = 0)) => <>(Returned /\ ret = None)

\* C4, the state the crawl is left in instead: start blocked in recv with
\* nothing buffered, nothing being fetched and every worker task completed
Exhausted ==
  /\ sched_pc = "recv"
  /\ channel = <<>>
  /\ \A i \in 1..Len(thread_handlers) : thread_handlers[i].pc = "done"

\* C5: the visited set only grows, and no title is in more than one batch
\* sent on the channel (the origin, sent once by start, included)
C5_NoTitleSentTwice ==
  /\ [](\A t \in BagToSet(emitted) : CopiesIn(t, emitted) = 1)
  /\ [][visited \subseteq visited']_vars

\* two workers have paginated, and a link met a second time was skipped
C5_Witness ==
  /\ world = WorldUnreachable
  /\ visited = {A, B, C, D}
  /\ BagToSet(emitted) = {A, B, C, D}
  /\ Cardinality({i \in 1..Len(thread_handlers) :
                    thread_handlers[i].pc = "done"}) >= 3

\* C8: the finished flag changes only from 0 to 1, only in a step of a worker
\* whose article links to the goal, and once 1 it stays 1
C8_FlagSetOnce ==
  [][/\ finished = 1 => finished' = 1
     /\ finished' # finished =>
          /\ finished = 0
          /\ finished' = 1
          /\ \E i \in 1..Len(thread_handlers) :
               /\ thread_handlers[i].pc = "finished_held"
               /\ thread_handlers'[i].pc = "write_node"
               /\ world.goal \in
                    Range(thread_handlers[i].new_batches[thread_handlers[i].article[1]])
    ]_vars

\* two workers have written the flag
C8_Witness ==
  /\ finished = 1
  /\ Cardinality({i \in 1..Len(thread_handlers) :
        thread_handlers[i].pc = "write_node"}) = 2

\* C9: once the final node is set it is never replaced by another node
C9_ResultWrittenOnce ==
  [][final_node # None => final_node' = final_node]_vars

\* start left its loop and every join succeeded
Drained ==
  /\ Returned
  /\ join_idx > Len(thread_handlers)

\* C10: when start has drained and returned, it returned a path if and only
\* if the final node is set
C10_PathIffResult ==
  Drained => ((ret # None) <=> (final_node # None))

C10_Witness ==
  /\ Drained
  /\ final_node # None
  /\ ret # None
  /\ Len(thread_handlers) >= 3

\* the get_links calls that have not returned
InFlight == {k \in 1..Len(fetch_log) : fetch_log[k].result = "pending"}

NotEmptyBatch(batch) == batch # <<>>

\* the titles of the get_links calls, in order
FetchedBatches == [k \in 1..Len(fetch_log) |-> fetch_log[k].titles]

\* C11: at most one get_links call is in flight; the calls are, in order, the
\* batches received that are not empty, one call each, of 1 to 50 titles; and
\* a call is made only in a step of start's loop, in which no worker moves
C11_OneFetchPerBatch ==
  /\ [](/\ Cardinality(InFlight) <= 1
        /\ FetchedBatches = SelectSeq(received, NotEmptyBatch)
        /\ \A k \in 1..Len(fetch_log) :
              /\ Len(fetch_log[k].titles) >= 1
              /\ Len(fetch_log[k].titles) <= MAX_LINKS)
  /\ [][fetch_log' # fetch_log =>
         /\ sched_pc \in {"recv", "fetch"}
         /\ thread_handlers' = thread_handlers
            \/ /\ sched_pc = "fetch"
               /\ SubSeq(thread_handlers', 1, Len(thread_handlers)) = thread_handlers
      ]_vars

\* the origin's 51 links were fetched in a call of 50 titles and a call of
\* one title, and both calls have returned
C11_Witness ==
  /\ world = WorldWide
  /\ Len(fetch_log) = 3
  /\ Len(fetch_log[2].titles) = MAX_LINKS
  /\ Len(fetch_log[3].titles) = 1
  /\ InFlight = {}

\* C12: once the finished flag is 1, no get_links call is made and no worker
\* task is spawned
C12_NoFetchAfterFlag ==
  [][finished = 1 =>
       /\ Len(fetch_log') = Len(fetch_log)
       /\ Len(thread_handlers') = Len(thread_handlers)
    ]_vars

\* C12, what start does instead: from the moment the flag is written, at most
\* one more get_links call is made and at most one more worker task spawned,
\* and none once the check of line 138 has read the flag
LateFetchIsBounded ==
  [][finished = 1 =>
       /\ Len(fetch_log') # Len(fetch_log) => sched_pc = "recv"
       /\ Len(thread_handlers') # Len(thread_handlers) => sched_pc = "fetch"
       /\ sched_pc \in {"join_display", "drop_receiver", "await", "done"} =>
            /\ fetch_log' = fetch_log
            /\ Len(thread_handlers') = Len(thread_handlers)
    ]_vars

\* C13: with identical resolved titles crawl returns without a Crawler (whose
\* visited set would hold the origin), without a display thread, a batch, a
\* get_links call or a worker; whenever start runs, origin and goal differ
C13_NoCrawlOnSameTitles ==
  /\ world.origin = world.goal =>
       /\ sched_pc \in {"crawl", "rejected"}
       /\ visited = {}
       /\ display_pc = "unspawned"
       /\ channel = <<>>
       /\ fetch_log = <<>>
       /\ thread_handlers = <<>>
  /\ sched_pc \notin {"crawl", "rejected"} => world.origin # world.goal

\* crawl has returned on identical titles
C13_Witness ==
  /\ world.origin = world.goal
  /\ sched_pc = "rejected"

\* start has left its loop
Draining == sched_pc \in {"join_display", "drop_receiver", "await", "done"}

\* C14: once the finished flag is 1, start eventually leaves its loop and
\* eventually returns a path
C14_FlagLeadsToPath ==
  /\ (finished = 1) ~> Draining
  /\ (finished = 1) ~> (Returned /\ ret # None)

\* C14, the state the crawl is left in instead: the flag written, the final
\* node set and every worker task completed, start blocked in recv with
\* nothing buffered
FoundButBlocked ==
  /\ finished = 1
  /\ final_node # None
  /\ sched_pc = "recv"
  /\ channel = <<>>
  /\ \A i \in 1..Len(thread_handlers) : thread_handlers[i].pc = "done"

\* C15: the step in which start receives an empty batch makes no get_links
\* call, spawns no worker, changes neither the visited set, the finished flag
\* nor the final node, and leaves start at the top of its loop
C15_EmptyBatchIsNoOp ==
  [][(Len(received') > Len(received) /\ received'[Len(received')] = <<>>) =>
       /\ fetch_log' = fetch_log
       /\ thread_handlers' = thread_handlers
       /\ visited' = visited
       /\ finished' = finished
       /\ final_node' = final_node
       /\ to_analyse' = None
       /\ sched_pc' = "check"
    ]_vars

\* an empty batch was received with the flag not set, and start went on to
\* receive and fetch a later batch
C15_Witness ==
  /\ \E k \in 1..(Len(received) - 1) : received[k] = <<>>
  /\ finished = 0
  /\ received[Len(received)] # <<>>
  /\ sched_pc = "fetch"

\* the get_links calls that failed
FailedCalls == {k \in 1..Len(fetch_log) : fetch_log[k].result = "err"}

\* C16: the step in which a get_links call fails spawns no worker, changes
\* neither the visited set, the finished flag nor the final node, and leaves
\* start at the top of its loop; the titles of a failed call are in the
\* visited set and in no other get_links call of the crawl
C16_FailedBatchIsDropped ==
  /\ [][fetch_failures' # fetch_failures =>
          /\ thread_handlers' = thread_handlers
          /\ visited' = visited
          /\ finished' = finished
          /\ final_node' = final_node
          /\ to_analyse' = None
          /\ sched_pc' = "check"
       ]_vars
  /\ [](\A k \in FailedCalls :
          /\ Range(fetch_log[k].titles) \subseteq visited
          /\ \A j \in 1..Len(fetch_log) :
               j # k => Range(fetch_log[j].titles) \cap Range(fetch_log[k].titles) = {})

\* the call for [CL] failed; later calls returned links to CL, and the last
\* batch received is empty: nothing is left to fetch, CL was not fetched again
C16_Witness ==
  /\ world = WorldBackLink
  /\ \E k \in FailedCalls : fetch_log[k].titles = <<CL>>
  /\ {<<BL, CL>>, <<D, CL>>} \subseteq fetched
  /\ received[Len(received)] = <<>>
  /\ sched_pc = "recv"
  /\ channel = <<>>

\* worker i takes a step
WorkerMoves(i) == thread_handlers'[i] # thread_handlers[i]

\* C17: a worker that has found the goal among an article's links writes as
\* final node the goal's node, its parent the article's node, whose parent is
\* the parent the task was spawned with, and returns; a task that returned
\* takes no further step, and the visited set and the titles sent change only
\* in a step of crawl, of start's first send, or of a worker that is
\* paginating or sending
C17_GoalEndsTheTask ==
  [][/\ \A i \in 1..Len(thread_handlers) :
          /\ (thread_handlers[i].pc = "node_held" /\ WorkerMoves(i)) =>
               /\ final_node' =
                    Some(ArticleNode(world.goal,
                           Some(ArticleNode(thread_handlers[i].article[1],
                                            thread_handlers[i].parent))))
               /\ thread_handlers'[i].pc = "done"
               /\ thread_handlers'[i].rest = thread_handlers[i].rest
               /\ visited' = visited
               /\ emitted' = emitted
               /\ channel' = channel
          /\ thread_handlers[i].pc = "done" => ~WorkerMoves(i)
     /\ visited' # visited =>
          \/ sched_pc = "crawl"
          \/ \E i \in 1..Len(thread_handlers) :
               thread_handlers[i].pc = "visited_held" /\ WorkerMoves(i)
     /\ emitted' # emitted =>
          \/ sched_pc = "start"
          \/ \E i \in 1..Len(thread_handlers) :
               thread_handlers[i].pc = "send" /\ WorkerMoves(i)
    ]_vars

\* on A -> [B, C], B -> [D], C -> [GOAL] the worker given {B, C} took C first,
\* found the goal and returned: the crawl is over and the pair of B was never
\* paginated
C17_Witness ==
  /\ world = WorldExample
  /\ Returned
  /\ final_node = Some(ArticleNode(GOAL,
                    Some(ArticleNode(C, Some(ArticleNode(A, None))))))
  /\ \E i \in 1..Len(thread_handlers) :
       /\ thread_handlers[i].pc = "done"
       /\ thread_handlers[i].rest = {B}
  /\ D \notin visited

\* C18: a send with the receiver dropped buffers nothing, and the flag is
\* read next; with the finished flag 1 the task returns, whatever batches it
\* has left, and takes no further step; with the flag not 1 the task goes on
\* to its next batch or, after the last one, to its next pair
C18_FailedSend ==
  [][\A i \in 1..Len(thread_handlers) :
       /\ (thread_handlers[i].pc = "send" /\ ~receiver_open /\ WorkerMoves(i)) =>
            /\ channel' = channel
            /\ thread_handlers'[i].pc = "send_failed"
            /\ thread_handlers'[i].to_send = thread_handlers[i].to_send
       /\ (thread_handlers[i].pc \in {"send_failed", "flag_held"}
             /\ thread_handlers'[i].pc \notin {"send_failed", "flag_held"}) =>
            /\ channel' = channel
            /\ IF finished = 1
                 THEN /\ thread_handlers'[i].pc = "done"
                      /\ thread_handlers'[i].to_send = thread_handlers[i].to_send
                 ELSE IF Len(thread_handlers[i].to_send) > 1
                 THEN /\ thread_handlers'[i].pc = "send"
                      /\ thread_handlers'[i].to_send = Tail(thread_handlers[i].to_send)
                 ELSE thread_handlers'[i].pc = "iter"
       /\ (thread_handlers[i].pc = "done" /\ thread_handlers[i].to_send # <<>>) =>
            ~WorkerMoves(i)
    ]_vars

\* a send fails only after start has left its loop, the flag then being 1
ClosedOnlyAfterFlag == ~receiver_open => finished = 1

\* a task whose send failed has returned with two batches unsent, and start
\* has returned
C18_Witness ==
  /\ ~receiver_open
  /\ finished = 1
  /\ Returned
  /\ \E i \in 1..Len(thread_handlers) :
       /\ thread_handlers[i].pc = "done"
       /\ Len(thread_handlers[i].to_send) = 2

\* start is about to reclaim the Crawler (line 200)
AtReclaim ==
  /\ sched_pc = "await"
  /\ join_idx > Len(thread_handlers)

\* the nodes above the final node, each held in an Arc
AncestorsOfFinal ==
  IF final_node = None \/ final_node[1].parent = None THEN {}
  ELSE Chain(final_node[1].parent[1])

\* C19: when start reaches line 200, every worker task it spawned has
\* returned, the Arc of the Crawler has one owner, every Arc on the final
\* node's parent chain has one owner, none of them referenced by a buffered
\* batch or a task, and detravel_path yields a path when the final node is set
C19_SoleOwnerAtReclaim ==
  AtReclaim =>
    /\ \A i \in 1..Len(thread_handlers) : thread_handlers[i].pc = "done"
    /\ crawler_strong_count = 1
    /\ \A n \in AncestorsOfFinal :
         /\ strong_count(n) = 1
         /\ RootCount(n) = 0
    /\ final_node # None => detravel_path # None

\* start is at line 200 after four workers, with a final node three Arcs deep
C19_Witness ==
  /\ AtReclaim
  /\ Len(thread_handlers) >= 4
  /\ Cardinality(AncestorsOfFinal) = 3

C21_FiveFailuresAbort ==
  /\ [][/\ (sched_pc = "recv" /\ Len(received') > Len(received)) =>
             /\ channel_failsafe' = 0
             /\ sched_pc' = "check"
        /\ (sched_pc = "recv" /\ sched_pc' # "recv" /\ received' = received) =>
             /\ channel_failsafe' = channel_failsafe + 1
             /\ IF channel_failsafe' = 5
                  THEN sched_pc' = "done" /\ ret' = None
                  ELSE sched_pc' = "check" /\ ret' = ret
        /\ (sched_pc # "done" /\ sched_pc' = "done") => channel_failsafe' = 5
       ]_vars
  /\ [](/\ channel_failsafe <= 5
        /\ sched_pc = "done" <=> channel_failsafe = 5)

\* start has received every batch of the run and returned None on the fifth
\* failure in a row
C21_Witness ==
  /\ sched_pc = "done"
  /\ ret = None
  /\ channel_failsafe = 5
  /\ Len(received) = MaxRecvRun

\* the handler start awaits next belongs to a task that panicked
JoinFails ==
  /\ sched_pc = "await"
  /\ join_idx <= Len(thread_handlers)
  /\ thread_handlers[join_idx].pc = "panicked"

\* C22: when the await of a handler fails, start's next step is to return
\* None, whatever the final node; having returned after the await of a task
\* that panicked, it returned None
C22_JoinFailureIsFatal ==
  /\ [][(JoinFails /\ (sched_pc' # sched_pc \/ join_idx' # join_idx)) =>
          /\ sched_pc' = "done"
          /\ ret' = None
          /\ join_idx' = join_idx
       ]_vars
  /\ []((/\ Returned
         /\ \E i \in 1..Len(thread_handlers) :
              i <= join_idx /\ thread_handlers[i].pc = "panicked") => ret = None)

\* start has returned None on a panicked task although the final node is set
C22_Witness ==
  /\ Returned
  /\ join_idx <= Len(thread_handlers)
  /\ thread_handlers[join_idx].pc = "panicked"
  /\ final_node # None
  /\ ret = None

\* C23: a step of the display thread changes neither the visited set, the
\* finished flag nor the final node; once the flag is 1 the display thread
\* eventually exits, and start's join on it eventually returns
C23_DisplayObservesFlag ==
  /\ [][(display_pc # "unspawned" /\ display_pc' # display_pc) =>
          /\ visited' = visited
          /\ finished' = finished
          /\ final_node' = final_node
       ]_vars
  /\ (finished = 1) ~> (display_pc = "exited")
  /\ (sched_pc = "join_display") ~> (sched_pc # "join_display")

\* C23, what holds: the display thread exits and the join returns in the
\* crawls in which the lock of the visited set is never poisoned
DisplayObservesFlagUnlessPoisoned ==
  [](~visited_poisoned) =>
     /\ (finished = 1) ~> (display_pc = "exited")
     /\ (sched_pc = "join_display") ~> (sched_pc # "join_display")

\* C23, the state the crawl is left in instead: the flag written, the lock of
\* the visited set poisoned, the display thread failing to read the set's
\* size over and over, and start waiting in its join
DisplayNeverExits ==
  /\ finished = 1
  /\ visited_poisoned
  /\ display_pc = "visited"
  /\ sched_pc = "join_display"

\* C25: whenever the finished flag is 1 the final node is set
C25_FlagImpliesResult ==
  finished = 1 => final_node # None

\* start reads the flag as 1 at line 131 while the final node is still empty
FlagReadBeforeResult ==
  /\ finished = 1
  /\ final_node = None
  /\ sched_pc = "join_display"
  /\ \E i \in 1..Len(thread_handlers) : thread_handlers[i].pc = "write_node"

\* C25, what holds: the final node is set when start reaches line 200 with
\* the flag set
ResultSetAtReclaim ==
  (AtReclaim /\ finished = 1) => final_node # None

\* C26: the goal title is never in the visited set, never in a batch sent on
\* the channel or buffered in it, never among the titles of a get_links call,
\* and no worker processes the links of the goal's article
C26_GoalNeverQueried ==
  /\ world.goal \notin visited
  /\ world.goal \notin BagToSet(emitted)
  /\ \A k \in 1..Len(channel) : world.goal \notin Range(channel[k].new_batch)
  /\ \A k \in 1..Len(received) : world.goal \notin Range(received[k])
  /\ \A k \in 1..Len(fetch_log) : world.goal \notin Range(fetch_log[k].titles)
  /\ \A pair \in fetched : pair[1] # world.goal
  /\ \A i \in 1..Len(thread_handlers) :
       world.goal \notin DOMAIN thread_handlers[i].new_batches

\* the crawl returned a path after CL's links, BL and the goal, were fetched:
\* every other title of the world was visited and sent, the goal was not
C26_Witness ==
  /\ world = WorldBackLink
  /\ Returned
  /\ ret # None
  /\ <<CL, GOAL>> \in fetched
  /\ visited = {A, BL, CL, D}
  /\ BagToSet(emitted) = {A, BL, CL, D}

\* worker i waits in send for room in the full channel
BlockedOnSend(i) ==
  /\ thread_handlers[i].pc = "send"
  /\ receiver_open
  /\ Len(channel) >= ChannelCap

AllWorkersOver ==
  \A i \in 1..Len(thread_handlers) : Over(thread_handlers[i])

\* C24: every worker task spawned eventually returns or panics, a task that
\* waits in send for room in the channel included: from some point on no
\* spawned task is left running
C24_WorkersComplete ==
  <>[]AllWorkersOver

\* a worker waits for ever on the full channel: start waits in join for the
\* display thread, which loops on the poisoned lock, so the receiver is
\* neither read nor dropped
BlockedForEver ==
  /\ world = WorldBlocked
  /\ sched_pc = "join_display"
  /\ visited_poisoned
  /\ display_pc = "visited"
  /\ finished = 1
  /\ BlockedOnSend(1)
  /\ \A i \in 2..Len(thread_handlers) : Over(thread_handlers[i])

\* C24, what holds: every task completes in the crawls in which the lock of
\* the visited set is never poisoned
WorkersCompleteUnlessPoisoned ==
  [](~visited_poisoned) => <>[]AllWorkersOver

\* a worker that waited on the full channel was released by start's recv,
\* another by the drop of the receiver
ReleasedBothWays ==
  /\ world = WorldBlocked
  /\ ~visited_poisoned
  /\ Returned
  /\ ret # None
  /\ AllWorkersOver
  /\ Len(received) >= 2
  /\ \E i \in 1..Len(thread_handlers) : thread_handlers[i].to_send # <<>>

\* the locks a task holds a guard of
HeldBy(task, id) ==
  {lock \in LockNames : \E g \in locks[lock] : g.task = task /\ g.id = id}

\* C27: a task holds no guard while it is in recv or awaits get_links (start)
\* or is in send (a worker), and no task holds guards of two locks at once
C27_NoLockWhileBlocked ==
  /\ sched_pc \in {"recv", "fetch"} => HeldBy("start", 0) = {}
  /\ \A i \in 1..Len(thread_handlers) :
       thread_handlers[i].pc = "send" => HeldBy("worker", i) = {}
  /\ Cardinality(HeldBy("start", 0)) <= 1
  /\ Cardinality(HeldBy("display", 0)) <= 1
  /\ \A i \in 1..Len(thread_handlers) : Cardinality(HeldBy("worker", i)) <= 1

\* start awaits get_links and a worker waits in send on the full channel,
\* neither holding a guard, while another worker holds the write guard of the
\* visited set and the display thread a read guard of the flag
C27_Witness ==
  /\ sched_pc = "fetch"
  /\ HeldBy("start", 0) = {}
  /\ display_pc = "finished_held"
  /\ \E i, j \in 1..Len(thread_handlers) :
       /\ BlockedOnSend(j)
       /\ HeldBy("worker", j) = {}
       /\ thread_handlers[i].pc = "visited_held"
       /\ locks = [visited |-> {Guard("worker", i, "write")},
                   finished |-> {Guard("display", 0, "read")},
                   final_node |-> {}]

\* the guards alive on a lock are one write guard or any number of read guards
GuardsExclude ==
  \A lock \in LockNames :
    \A g \in locks[lock] : g.mode = "write" => locks[lock] = {g}

\* start and the display thread hold a read guard of the flag at once
TwoReaders ==
  locks["finished"] = {Guard("start", 0, "read"), Guard("display", 0, "read")}

---------------------------------------------------------------------------
(* Properties of one call of paginate_links *)

\* the lengths of batch[lo..hi], summed
RECURSIVE SumLens(_, _, _)
SumLens(batch, lo, hi) ==
  IF lo > hi THEN 0
  ELSE IF lo = hi THEN StrLen(batch[lo])
  ELSE SumLens(batch, lo, (lo + hi) \div 2)
       + SumLens(batch, (lo + hi) \div 2 + 1, hi)

\* the length of a batch's titles joined by "|" (wiki_api.rs line 167)
JoinLen(batch) ==
  IF batch = <<>> THEN 0
  ELSE SumLens(batch, 1, Len(batch)) + (Len(batch) - 1)

BatchWithinCaps(batch) ==
  /\ Len(batch) <= MAX_LINKS
  /\ JoinLen(batch) <= max_chars

\* C6: every batch returned holds at most 50 titles and at most 1875
\* characters when joined
C6_BatchesWithinCaps ==
  p_pc = "returned" =>
     \A b \in 1..Len(p_st.link_batches) : BatchWithinCaps(p_st.link_batches[b])

NoOverlongTitle == \A k \in 1..Len(p_links) : StrLen(p_links[k]) <= max_chars

\* what holds of the batches returned: at most 50 titles each and, when no
\* input title is longer than 1875 bytes, at most 1875 characters when joined
BatchesWithinCapsNoOverlong ==
  p_pc = "returned" =>
     \A b \in 1..Len(p_st.link_batches) :
        /\ Len(p_st.link_batches[b]) <= MAX_LINKS
        /\ NoOverlongTitle => JoinLen(p_st.link_batches[b]) <= max_chars

\* a batch closed by the 50-link cap and a batch after it
FullBatchReturned ==
  /\ p_pc = "returned"
  /\ NoOverlongTitle
  /\ Len(p_st.link_batches) >= 2
  /\ Len(p_st.link_batches[1]) = MAX_LINKS

\* a batch that fills the character budget to the last byte
FullBudgetReturned ==
  /\ p_pc = "returned"
  /\ \E b \in 1..Len(p_st.link_batches) :
        /\ JoinLen(p_st.link_batches[b]) = max_chars
        /\ Len(p_st.link_batches[b]) = 2

\* C28: in a call whose input titles are each at most 1875 bytes long,
\* available_chars is always within 0..1875, neither subtraction of the next
\* iteration (lines 457 and 460) underflows, and the call does not panic
C28_BudgetStaysInRange ==
  NoOverlongTitle =>
    /\ p_st.available_chars \in 0..max_chars
    /\ ~p_st.panicked
    /\ p_pc # "panicked"
    /\ (p_pc = "loop" /\ p_i <= Len(p_links) /\ p_links[p_i] \notin p_st.visited) =>
         /\ ~OpensBatch(p_st, p_links[p_i]) => ~Underflows(p_st.available_chars, 1)
         /\ ~Underflows(CharsAfterBranch(p_st, p_links[p_i]), StrLen(p_links[p_i]))

\* a call on four titles of 1875 bytes has returned: each title opened a
\* batch of its own and used the budget up to the last byte
C28_Witness ==
  /\ p_pc = "returned"
  /\ NoOverlongTitle
  /\ p_visited0 = {}
  /\ Len(p_links) = 4
  /\ \A k \in 1..Len(p_links) : StrLen(p_links[k]) = max_chars
  /\ p_st.available_chars = 0
  /\ Len(p_st.link_batches) = 5
  /\ \A b \in 2..5 : JoinLen(p_st.link_batches[b]) = max_chars

RECURSIVE Concat(_)
Concat(batches) ==
  IF batches = <<>> THEN <<>> ELSE Head(batches) \o Concat(Tail(batches))

\* the titles of links not in the set seen, each at its first place
FirstUnseen(links, seen) ==
  LET kept == {i \in 1..Len(links) :
                 /\ links[i] \notin seen
                 /\ \A j \in 1..(i - 1) : links[j] # links[i]}
      nth(k) == CHOOSE i \in kept : Cardinality({j \in kept : j <= i}) = k
  IN  [k \in 1..Cardinality(kept) |-> links[nth(k)]]

\* C7: the batches returned, concatenated, are the input titles that were not
\* visited when the call began, in input order and once each, and all of them
\* are visited when the call returns
C7_BatchesAreTheUnvisited ==
  p_pc = "returned" =>
     /\ Concat(p_st.link_batches) = FirstUnseen(p_links, p_visited0)
     /\ Range(FirstUnseen(p_links, p_visited0)) \subseteq p_st.visited

\* a repeated title and a visited title were skipped, another title was kept
C7_Witness ==
  /\ p_pc = "returned"
  /\ Len(p_links) = 3
  /\ p_links[1] = p_links[3]
  /\ p_links[2] \in p_visited0
  /\ Concat(p_st.link_batches) = <<p_links[1]>>

===========================================================================
